---------------------------- MODULE Spec2Model ----------------------------
(***************************************************************************)
(* A model of collatelogs' LogCollator (src/collatelogs/logcollator.py):   *)
(* collate() reads every listed file, folds each file line by line         *)
(* (process_log_file), optionally removes duplicates and sorts.            *)
(*                                                                         *)
(* Time is counted in ticks; a day has DayLen ticks.  A datetime is a      *)
(* record [date, tod, off]: wall-clock date, wall-clock time of day and    *)
(* its tzinfo: aware tells whether it has one, off is its UTC offset in    *)
(* ticks.  A text is a sequence of characters, a character is a natural    *)
(* number, and texts are ordered as Python orders strings.                 *)
(*                                                                         *)
(* The content of a file is input of the environment: the model keeps of   *)
(* readlines() whether the file has lines, and reveals the text of a line, *)
(* and whether it is the last, when the fold reaches it.                   *)
(***************************************************************************)
EXTENDS Integers, Sequences, FiniteSets, TLC

VARIABLES
    bad_line_behavior,       \* self.bad_line_behavior
    allow_duplicates,        \* self.allow_duplicates
    timestamp_output_format, \* self.timestamp_output_format (NONE when unset)
    line_output_format,      \* self.line_output_format: its placeholders
    log_parsing_info,        \* self.log_parsing_info: the ordered schemas
    log_paths,               \* number of listed paths (self.log_paths)
    path_map,                \* collate: path index -> whether it has lines
    unreadable,              \* paths whose open() raised IOError
    pc,                      \* position in collate
    cur,                     \* process_path_map: index of the current path
    lineno,                  \* process_log_file: lines of the file visited
    visited,                 \* lines visited by the folds so far, all files
    filename_date,           \* process_log_file: filename_date
    previous_line_date,      \* process_log_file: previous_line_date
    path_meta_keywords,      \* process_log_file: path_meta_keywords
    processed_lines,         \* process_log_file: processed_lines
    all_processed_lines,     \* process_path_map: all_processed_lines
    sorted_lines,            \* collate: the sorted records before projection
    output,                  \* what collate returned (NONE before it returns)
    last_exc,                \* what the last visited line raised ("none")
    unmatched,               \* raw texts of the visited lines no schema matched
    error,                   \* the exception that left collate, and where
    call                     \* a single call of a method or of a function of
                             \* util.py: its arguments, position and result

vars == <<bad_line_behavior, allow_duplicates, timestamp_output_format,
          line_output_format, log_parsing_info, log_paths, path_map, unreadable, pc, cur, lineno,
          visited, filename_date, previous_line_date, path_meta_keywords,
          processed_lines, all_processed_lines, sorted_lines, output,
          last_exc, unmatched, error, call>>

config == <<bad_line_behavior, allow_duplicates, timestamp_output_format,
            line_output_format, log_paths>>

\* What collate and the fold of a file work on.
collate_vars == <<config, log_parsing_info, path_map, unreadable, pc, cur,
                  lineno, visited, filename_date, previous_line_date,
                  path_meta_keywords, processed_lines, all_processed_lines,
                  sorted_lines, output, last_exc, unmatched, error>>

-----------------------------------------------------------------------------
(* Bounds *)

MaxFiles == 2
MaxLines == 2

\* The longest list of schemas a single call of match_first is given.
MaxSchemas == 3

\* The ticks of one day (relativedelta(days=1)).
DayLen == 2

\* The dates the timestamps of the lines and the names of the files carry;
\* the wraparound correction reaches the days after them.
InputDates == {0}

-----------------------------------------------------------------------------
(* Values *)

NONE == "None"

\* An optional value: None is the empty sequence, a value x is <<x>>.
None == <<>>
Some(x) == <<x>>

Range(s) == {s[i] : i \in DOMAIN s}

Min(S) == CHOOSE x \in S : \A y \in S : x <= y

\* Python's str comparison: lexicographic, a proper prefix comes first.
RECURSIVE LexLess(_, _)
LexLess(a, b) ==
    IF b = <<>> THEN FALSE
    ELSE IF a = <<>> THEN TRUE
    ELSE IF Head(a) # Head(b) THEN Head(a) < Head(b)
    ELSE LexLess(Tail(a), Tail(b))

LexLeq(a, b) == a = b \/ LexLess(a, b)

\* datetime: the instant of an aware datetime, in ticks since the epoch.
Instant(dt) == dt.date * DayLen + dt.tod - dt.off

-----------------------------------------------------------------------------
(* Configuration: the schemas and the output template *)

\* "{timestamp} [{name}] {msg}": the placeholders of a line_output_format.
TimestampNameMsg == <<"timestamp", "name", "msg">>

\* "{timestamp} [{name}] {filename}: {msg}", a template that asks for the
\* meta handler filename.
TimestampNameFilenameMsg == <<"timestamp", "name", "filename", "msg">>

\* The meta handlers the template asks for (owner, filename).
meta_handlers == {"owner", "filename"} \cap Range(line_output_format)

strip_lines == TRUE

\* A schema whose timestamps carry no date ("%H:%M:%S"), with wraparound
\* correction and a date in the file name.
SchemaA ==
    [name |-> <<1>>,
     timestamp_input_format |-> "time_only",
     timestamp_input_timezone |-> None,
     timestamp_output_timezone |-> None,
     fix_wraparound |-> TRUE,
     line_regex |-> {"timestamp", "msg"},
     filename_date_regex |-> "regex",
     filename_date_format |-> "date",
     match |-> None]

\* A schema whose timestamps are parsed free-form (no timestamp_input_format).
SchemaB ==
    [name |-> <<2>>,
     timestamp_input_format |-> NONE,
     timestamp_input_timezone |-> None,
     timestamp_output_timezone |-> None,
     fix_wraparound |-> FALSE,
     line_regex |-> {"timestamp", "msg"},
     filename_date_regex |-> NONE,
     filename_date_format |-> NONE,
     match |-> None]

SchemaSets == {<<SchemaA, SchemaB>>}

\* SchemaA configured with filename_date_regex and without
\* filename_date_format.
SchemaWithoutDateFormat == [SchemaA EXCEPT !.filename_date_format = NONE]

\* SchemaA with a line_regex that has a group named filename as well.
SchemaCapturingFilename == [SchemaA EXCEPT !.line_regex = @ \cup {"filename"}]

Policies == {"keep", "error", "warn", "discard"}

\* strftime formats: "fine" prints date and time of day, "coarse" the date
\* alone (as "%Y-%m-%d" does).
OutputFormats == {NONE, "fine", "coarse"}

-----------------------------------------------------------------------------
(* Input of the environment: lines and paths *)

TimeTexts == {<<t>> : t \in 0 .. DayLen}           \* <<DayLen>> is out of range
DateTexts == {<<d, t>> : d \in InputDates, t \in 0 .. DayLen}

BlankLine ==
    [blank |-> TRUE, hits |-> {}, timestamp |-> <<>>, msg |-> <<>>,
     filename |-> <<>>]

\* What a group named filename captures of a line, when the line_regex that
\* matches has such a group; no path is called so.
CapturedName == <<9>>

\* hits: the schemas whose line_regex matches the line; timestamp, msg and
\* filename: what the named groups of the match capture.
RawLines ==
    {BlankLine}
    \cup {[blank |-> FALSE, hits |-> {}, timestamp |-> <<>>, msg |-> <<0>>,
           filename |-> <<>>]}
    \cup {[blank |-> FALSE, hits |-> h, timestamp |-> ts, msg |-> <<1>>,
           filename |-> CapturedName] :
            h \in {{1}, {1, 2}}, ts \in TimeTexts}
    \cup {[blank |-> FALSE, hits |-> {2}, timestamp |-> ts, msg |-> <<1>>,
           filename |-> CapturedName] :
            ts \in DateTexts}

\* The text of a line after strip().
RawText(line) == line.timestamp \o line.msg

\* A path: the schemas whose filename_date_regex matches it, and the text of
\* the group "date" (a text of two characters is no date).
Paths(infos) ==
    {[hits |-> {}, date |-> <<>>]}
    \cup {[hits |-> {i}, date |-> d] :
            i \in {j \in DOMAIN infos : infos[j].filename_date_regex # NONE},
            d \in {<<x>> : x \in InputDates} \cup {<<0, 0>>}}

-----------------------------------------------------------------------------
(* util.py *)

\* match_first: the first schema, in configuration order, whose regex
\* matches; 0 stands for None.  logcollator.py names the key of the regex in
\* a third argument ("line_regex", "filename_date_regex"); hits holds the
\* schemas whose regex under that key matches.
\* Mutant: the last schema that matches is returned.
match_last(hits, infos) ==
    IF hits \cap DOMAIN infos = {} THEN 0
    ELSE CHOOSE i \in hits \cap DOMAIN infos :
             \A j \in hits \cap DOMAIN infos : j <= i

match_first(hits, infos) ==
    IF hits \cap DOMAIN infos = {} THEN 0 ELSE Min(hits \cap DOMAIN infos)

\* match_first stores the groups of the match on the schema it returns.
StoreMatch(infos, i, groupdict) ==
    IF i = 0 THEN infos ELSE [infos EXCEPT ![i].match = Some(groupdict)]

\* dict.update
Update(d, e) ==
    [k \in DOMAIN d \cup DOMAIN e |-> IF k \in DOMAIN e THEN e[k] ELSE d[k]]

\* tzinfo.localize(dt): the wall clock is kept.
Localize(dt, tz) == [dt EXCEPT !.aware = TRUE, !.off = tz]

\* datetime.astimezone(tz): the instant is kept.
AsTimezone(dt, tz) ==
    LET wall == Instant(dt) + tz
    IN  [date |-> wall \div DayLen, tod |-> wall % DayLen,
         aware |-> TRUE, off |-> tz]

\* Mutant: the zones are taken the other way round.
convert_timezone_swapped(dt, tz_orig, tz_dest) ==
    IF tz_orig = None
    THEN [exc |-> "KeyError", dt |-> dt]
    ELSE [exc |-> "none",
          dt |-> AsTimezone(Localize(dt, tz_dest[1]), tz_orig[1])]

\* convert_timezone (called with tz_from, tz_to): timezone(None) raises
\* UnknownTimeZoneError, a KeyError.
convert_timezone(dt, tz_orig, tz_dest) ==
    IF tz_orig = None
    THEN [exc |-> "KeyError", dt |-> dt]
    ELSE [exc |-> "none",
          dt |-> AsTimezone(Localize(dt, tz_orig[1]), tz_dest[1])]

-----------------------------------------------------------------------------
(* logcollator.py: resolving the timestamp of a line *)

\* datetime.strptime gives year 1900 to a text that carries no date.
Year1900 == -1900

Naive(d, t) == [date |-> d, tod |-> t, aware |-> FALSE, off |-> 0]

\* datetime.strptime(text, format): ValueError unless the text has the shape
\* of the format and its fields are in range.
Strptime(text, format) ==
    CASE format = "time_only" /\ Len(text) = 1 /\ text[1] \in 0 .. DayLen - 1
            -> [exc |-> "none", dt |-> Naive(Year1900, text[1])]
      [] format = "date_time" /\ Len(text) = 2 /\ text[1] >= 0
            /\ text[2] \in 0 .. DayLen - 1
            -> [exc |-> "none", dt |-> Naive(text[1], text[2])]
      [] format = "date" /\ Len(text) = 1 /\ text[1] >= 0
            -> [exc |-> "none", dt |-> Naive(text[1], 0)]
      [] OTHER -> [exc |-> "ValueError", dt |-> Naive(Year1900, 0)]

\* dateutil.parser.parse(text) of a text with a date: ParserError (a subclass
\* of ValueError) when a field is out of range.
DateutilParse(text) ==
    IF Len(text) = 2 /\ text[1] >= 0 /\ text[2] \in 0 .. DayLen - 1
    THEN [exc |-> "none", dt |-> Naive(text[1], text[2])]
    ELSE [exc |-> "ParserError", dt |-> Naive(Year1900, 0)]

\* LogCollator.parse_timestamp; base_datetime is optional.
parse_timestamp(timestamp, timestamp_format, base_datetime) ==
    LET parsed == IF timestamp_format # NONE
                  THEN Strptime(timestamp, timestamp_format)
                  ELSE DateutilParse(timestamp)
        based == IF base_datetime # None /\ parsed.dt.date = Year1900
                 THEN Naive(base_datetime[1].date, parsed.dt.tod)
                 ELSE parsed.dt
    IN  IF parsed.exc # "none" THEN parsed
        ELSE IF based.date = Year1900
        THEN [exc |-> "ValueError", dt |-> based]
        ELSE [exc |-> "none", dt |-> based]

\* Mutant: the date in the file name is preferred.
BaseDatetimeFilenameFirst(prev, fdate) ==
    IF fdate # None THEN fdate ELSE prev

\* amend_prefix_parse_timestamp: the base_datetime it gives parse_timestamp,
\* previous_line_date if there is one, filename_date otherwise.
BaseDatetime(prev, fdate) ==
    IF prev # None THEN prev ELSE fdate

\* amend_prefix_parse_timestamp: a naive timestamp gets the zones the schema
\* configures.
ResolveTimezone(dt, info) ==
    IF dt.aware THEN [exc |-> "none", dt |-> dt]
    ELSE IF info.timestamp_output_timezone # None
    THEN convert_timezone(dt, info.timestamp_input_timezone,
                          info.timestamp_output_timezone)
    ELSE IF info.timestamp_input_timezone # None
    THEN [exc |-> "none", dt |-> Localize(dt, info.timestamp_input_timezone[1])]
    ELSE [exc |-> "none", dt |-> Localize(dt, 0)]

\* Mutant: a timestamp equal to the previous one is advanced too.
FixWraparoundNotStrict(dt, info, prev) ==
    IF /\ info.fix_wraparound = TRUE
       /\ prev # None
       /\ Instant(dt) <= Instant(prev[1])
    THEN [dt EXCEPT !.date = @ + 1]
    ELSE dt

\* amend_prefix_parse_timestamp: the wraparound correction.
FixWraparound(dt, info, prev) ==
    IF /\ info.fix_wraparound = TRUE
       /\ prev # None
       /\ Instant(dt) < Instant(prev[1])
    THEN [dt EXCEPT !.date = @ + 1]
    ELSE dt

\* datetime.strftime(timestamp_output_format)
Strftime(dt, format) ==
    IF format = "coarse" THEN <<dt.date>> ELSE <<dt.date, dt.tod>>

\* line_output_format.format(**kwargs): the values of the placeholders, in
\* the order of the template.
RECURSIVE FormatKeys(_, _)
FormatKeys(keys, kwargs) ==
    IF keys = <<>> THEN <<>>
    ELSE kwargs[Head(keys)] \o FormatKeys(Tail(keys), kwargs)

Format(kwargs) == FormatKeys(line_output_format, kwargs)

\* m.groupdict(): the named groups of the regex that matched the line.
GroupDict(line, regex) == [k \in regex |-> line[k]]

\* The line_regex of the schema match_first returns (none for None).
LineRegex(infos, i) == IF i = 0 THEN {} ELSE infos[i].line_regex

\* LogCollator.amend_prefix_parse_timestamp(line, meta, filename_date,
\* previous_line_date).  The result carries what the call leaves behind:
\* exc (what it raised), infos (the schemas, match_first having written to
\* them), meta (the dict the caller passed, which the call updates in place
\* unless it is empty), timestamp and text (the pair returned).
amend_prefix_parse_timestamp(line, infos, meta, fdate, prev) ==
    LET i == match_first(line.hits, infos)
        infos1 == StoreMatch(infos, i, GroupDict(line, LineRegex(infos, i)))
        info == infos1[i]
        kwargs0 == Update(meta, info.match[1])
        parsed == parse_timestamp(kwargs0["timestamp"],
                                  info.timestamp_input_format,
                                  BaseDatetime(prev, fdate))
        zoned == ResolveTimezone(parsed.dt, info)
        fixed == FixWraparound(zoned.dt, info, prev)
        kwargs1 == Update(kwargs0,
                          [timestamp |-> Strftime(fixed, timestamp_output_format),
                           name |-> info.name])
        Kept(kw) == IF DOMAIN meta = {} THEN meta ELSE kw
        Failed(exc, kw) ==
            [exc |-> exc, infos |-> infos1, meta |-> Kept(kw),
             timestamp |-> Naive(Year1900, 0), text |-> <<>>]
    IN  IF i = 0 THEN Failed("ValueError", meta)
        ELSE IF parsed.exc # "none" THEN Failed(parsed.exc, kwargs0)
        ELSE IF zoned.exc # "none" THEN Failed(zoned.exc, kwargs0)
        ELSE [exc |-> "none", infos |-> infos1, meta |-> Kept(kwargs1),
              timestamp |-> fixed, text |-> Format(kwargs1)]

\* LogCollator.amend_prefix_no_parse_timestamp(line, meta): the captured
\* timestamp text is formatted as it is.
amend_prefix_no_parse_timestamp(line, infos, meta) ==
    LET i == match_first(line.hits, infos)
        infos1 == StoreMatch(infos, i, GroupDict(line, LineRegex(infos, i)))
        info == infos1[i]
        kwargs1 == Update(Update(meta, info.match[1]), [name |-> info.name])
    IN  IF i = 0
        THEN [exc |-> "ValueError", infos |-> infos1, meta |-> meta,
              text |-> <<>>]
        ELSE [exc |-> "none", infos |-> infos1,
              meta |-> IF DOMAIN meta = {} THEN meta ELSE kwargs1,
              text |-> Format(kwargs1)]

-----------------------------------------------------------------------------
(* logcollator.py: removing duplicates and sorting *)

\* Mutant: the set loses the first line when there are several.
RemoveDuplicatesLossy(lines) ==
    IF Len(lines) > 1 THEN Range(lines) \ {lines[1]} ELSE Range(lines)

\* set(log_lines)
RemoveDuplicates(lines) == Range(lines)

\* The orders in which a set can be iterated.
Enumerations(S) ==
    {e \in [1 .. Cardinality(S) -> S] : Range(e) = S}

\* The comparison sorted() makes: of the keys x[0] of two records, or of two
\* texts.
Less(key, a, b) ==
    IF key = "timestamp" THEN a[1] < b[1] ELSE LexLess(a, b)

\* sorted(): a stable sort.  Insert puts x before the first element that is
\* strictly greater, so equal elements keep the order they came in.
RECURSIVE Insert(_, _, _)
Insert(x, s, key) ==
    IF s = <<>> THEN <<x>>
    ELSE IF Less(key, x, Head(s)) THEN <<x>> \o s
    ELSE <<Head(s)>> \o Insert(x, Tail(s), key)

RECURSIVE Sorted(_, _)
Sorted(s, key) ==
    IF s = <<>> THEN <<>>
    ELSE Insert(s[Len(s)], Sorted(SubSeq(s, 1, Len(s) - 1), key), key)

\* Mutant: the records are returned in the order they are iterated.
SortedByTimestampUnsorted(lines) == lines

\* sorted(log_lines, key=lambda x: x[0])
SortedByTimestamp(lines) == Sorted(lines, "timestamp")

\* Mutant: the texts are returned in the order they are iterated.
SortedByTextUnsorted(lines) == lines

\* sorted(log_lines)
SortedByText(lines) == Sorted(lines, "text")

\* What sorted() can return for log_lines: a list is sorted as it is, a set
\* in whatever order it iterates.
SortedLines(lines, allow) ==
    LET inputs == IF allow THEN {lines}
                  ELSE Enumerations(RemoveDuplicates(lines))
    IN  IF timestamp_output_format # NONE
        THEN {SortedByTimestamp(e) : e \in inputs}
        ELSE {SortedByText(e) : e \in inputs}

\* [line[1] for line in ...]
Projected(lines) ==
    IF timestamp_output_format # NONE
    THEN [i \in DOMAIN lines |-> lines[i][2]]
    ELSE lines

-----------------------------------------------------------------------------
(* The state machine *)

NoError == [exc |-> "none", at |-> "none"]

\* No call is being followed.
NoCall == [fn |-> "none"]

\* collate has not begun.
Start ==
    /\ path_map = <<>>
    /\ unreadable = {}
    /\ pc = "read"
    /\ cur = 0
    /\ lineno = 0
    /\ visited = 0
    /\ filename_date = None
    /\ previous_line_date = None
    /\ path_meta_keywords = [k \in {} |-> <<>>]
    /\ processed_lines = <<>>
    /\ all_processed_lines = <<>>
    /\ sorted_lines = <<>>
    /\ output = <<>>
    /\ last_exc = "none"
    /\ unmatched = {}
    /\ error = NoError

Init ==
    /\ bad_line_behavior \in Policies
    /\ allow_duplicates \in BOOLEAN
    /\ timestamp_output_format \in OutputFormats
    /\ line_output_format = TimestampNameMsg
    /\ log_parsing_info \in SchemaSets
    /\ log_paths \in 1 .. MaxFiles
    /\ Start
    /\ call = NoCall

\* collate: total_lines is 0 when no path has a line.
no_lines == \A i \in DOMAIN path_map : ~path_map[i]

\* The paths from index i on that have lines.
WithLines(i) == {j \in DOMAIN path_map : j >= i /\ path_map[j]}

\* collate, populating path_map: open() and readlines() of the next path.
\* IOError, at the first open or at the LATIN1 retry after a
\* UnicodeDecodeError, leaves the path with no lines.
ReadFile ==
    /\ pc = "read"
    /\ Len(path_map) < log_paths
    /\ \E outcome \in {"lines", "empty", "IOError", "latin1",
                       "latin1_IOError"} :
          /\ outcome \in {"lines", "latin1"} =>
                Cardinality(WithLines(1)) < MaxLines
          /\ path_map' = Append(path_map, outcome \in {"lines", "latin1"})
          /\ unreadable' =
                IF outcome \in {"IOError", "latin1_IOError"}
                THEN unreadable \cup {Len(path_map) + 1}
                ELSE unreadable
    /\ UNCHANGED <<call, config, log_parsing_info, pc, cur, lineno, visited,
                   filename_date, previous_line_date, path_meta_keywords,
                   processed_lines, all_processed_lines, sorted_lines, output,
                   last_exc, unmatched, error>>

\* collate: with no line to process it returns [], otherwise it starts
\* process_path_map.
CountLines ==
    /\ pc = "read"
    /\ Len(path_map) = log_paths
    /\ pc' = IF no_lines THEN "done" ELSE "file"
    /\ cur' = IF no_lines THEN cur ELSE 1
    /\ UNCHANGED <<call, config, log_parsing_info, path_map, unreadable, lineno,
                   visited, filename_date, previous_line_date,
                   path_meta_keywords, processed_lines, all_processed_lines,
                   sorted_lines, output, last_exc, unmatched, error>>

\* What the meta handlers give for a path.
MetaKeywords(path) == [k \in meta_handlers |-> <<path>>]

\* process_log_file, up to the loop: the meta keywords of the path and the
\* date in its name.  A filename_date_regex without filename_date_format, or
\* a date that filename_date_format does not parse, raises ValueError.
StartFile ==
    /\ pc = "file"
    /\ \E path \in Paths(log_parsing_info) :
          LET i == match_first(path.hits, log_parsing_info)
              infos1 == StoreMatch(log_parsing_info, i, [date |-> path.date])
              parsed == Strptime(path.date, infos1[i].filename_date_format)
              raised == i # 0 /\ (infos1[i].filename_date_format = NONE
                                  \/ parsed.exc # "none")
          IN  /\ log_parsing_info' = infos1
              /\ path_meta_keywords' = MetaKeywords(cur)
              /\ filename_date' = IF i # 0 /\ ~raised THEN Some(parsed.dt)
                                  ELSE None
              /\ pc' = IF raised THEN "raised" ELSE "line"
              /\ error' = IF raised
                          THEN [exc |-> "ValueError",
                                at |-> IF infos1[i].filename_date_format = NONE
                                       THEN "filename_date_format"
                                       ELSE "filename_date"]
                          ELSE error
    /\ previous_line_date' = None
    /\ processed_lines' = <<>>
    /\ lineno' = 0
    /\ UNCHANGED <<call, config, path_map, unreadable, cur, visited,
                   all_processed_lines, sorted_lines, output, last_exc,
                   unmatched>>

\* What one turn of the loop of process_log_file does with a line that is
\* not blank: the call it makes, by timestamp_output_format.
ProcessLogLine(line) ==
    IF timestamp_output_format # NONE
    THEN amend_prefix_parse_timestamp(line, log_parsing_info,
                                      path_meta_keywords, filename_date,
                                      previous_line_date)
    ELSE amend_prefix_no_parse_timestamp(line, log_parsing_info,
                                         path_meta_keywords)

\* Mutant: "warn" raises as "error" does.
EscapesWarnRaises(exc) ==
    \/ exc \notin {"none", "ParserError", "ValueError"}
    \/ exc = "ValueError" /\ bad_line_behavior \in {"error", "warn"}

\* Mutant: "error" logs the line and goes on.
EscapesErrorGoesOn(exc) ==
    exc \notin {"none", "ParserError", "ValueError"}

\* The handlers of the loop: except ParserError comes first and only writes
\* the error; except ValueError applies bad_line_behavior (nothing but
\* "error" raises); any other exception leaves the loop.
Escapes(exc) ==
    \/ exc \notin {"none", "ParserError", "ValueError"}
    \/ exc = "ValueError" /\ bad_line_behavior = "error"

\* Mutant: a line that fails clears previous_line_date.
PreviousLineDateCleared(r, prev) ==
    IF r.exc = "none" /\ timestamp_output_format # NONE
    THEN Some(r.timestamp) ELSE None

\* process_log_file: previous_line_date after the call for a line returned
\* or raised; the assignment is reached only when the call returned.
PreviousLineDateAfter(r, prev) ==
    IF r.exc = "none" /\ timestamp_output_format # NONE
    THEN Some(r.timestamp) ELSE prev

\* The file has a line left: the fold has not reached its end, and the bound
\* leaves a line to each later path that has lines.
MoreLines ==
    /\ path_map[cur]
    /\ visited + Cardinality(WithLines(cur + 1)) < MaxLines

\* process_log_file, one turn of the loop over the lines of the file.
ProcessLine ==
    /\ pc = "line"
    /\ MoreLines
    /\ lineno' = lineno + 1
    /\ visited' = visited + 1
    /\ \E line \in RawLines :
          IF strip_lines /\ line.blank
          THEN /\ last_exc' = "none"
               /\ UNCHANGED <<log_parsing_info, path_meta_keywords,
                              previous_line_date, processed_lines, unmatched,
                              pc, error>>
          ELSE \E r \in {ProcessLogLine(line)} :
                   /\ log_parsing_info' = r.infos
                   /\ path_meta_keywords' = r.meta
                   /\ last_exc' = r.exc
                   /\ unmatched' =
                         IF match_first(line.hits, log_parsing_info) = 0
                         THEN unmatched \cup {RawText(line)} ELSE unmatched
                   /\ previous_line_date' =
                         PreviousLineDateAfter(r, previous_line_date)
                   /\ processed_lines' =
                         IF r.exc # "none" THEN processed_lines
                         ELSE IF timestamp_output_format # NONE
                         THEN Append(processed_lines,
                                     <<Instant(r.timestamp), r.text>>)
                         ELSE Append(processed_lines, r.text)
                   /\ pc' = IF Escapes(r.exc) THEN "raised" ELSE pc
                   /\ error' = IF Escapes(r.exc)
                               THEN [exc |-> r.exc, at |-> "line"]
                               ELSE error
    /\ UNCHANGED <<call, config, path_map, unreadable, cur, filename_date,
                   all_processed_lines, sorted_lines, output>>

\* process_log_file returns and process_path_map extends all_processed_lines.
ReturnFile ==
    /\ pc = "line"
    /\ path_map[cur] => lineno >= 1
    /\ all_processed_lines' = all_processed_lines \o processed_lines
    /\ cur' = cur + 1
    /\ pc' = IF cur = log_paths THEN "collate" ELSE "file"
    /\ UNCHANGED <<call, config, log_parsing_info, path_map, unreadable, lineno,
                   visited, filename_date, previous_line_date,
                   path_meta_keywords, processed_lines, sorted_lines, output,
                   last_exc, unmatched, error>>

\* collate, after process_path_map: duplicates are removed unless allowed,
\* the lines are sorted and returned.
Collate ==
    /\ pc = "collate"
    /\ sorted_lines' \in SortedLines(all_processed_lines, allow_duplicates)
    /\ output' = Projected(sorted_lines')
    /\ pc' = "done"
    /\ UNCHANGED <<call, config, log_parsing_info, path_map, unreadable, cur,
                   lineno, visited, filename_date, previous_line_date,
                   path_meta_keywords, processed_lines, all_processed_lines,
                   last_exc, unmatched, error>>

Next ==
    \/ ReadFile
    \/ CountLines
    \/ StartFile
    \/ ProcessLine
    \/ ReturnFile
    \/ Collate

Spec == Init /\ [][Next]_vars

\* collate of a LogCollator constructed with a schema that has
\* filename_date_regex and no filename_date_format.
InitWithoutDateFormat ==
    /\ bad_line_behavior \in {"discard", "error"}
    /\ allow_duplicates = TRUE
    /\ timestamp_output_format \in {NONE, "fine"}
    /\ line_output_format = TimestampNameMsg
    /\ log_parsing_info = <<SchemaWithoutDateFormat, SchemaB>>
    /\ log_paths \in 1 .. MaxFiles
    /\ Start
    /\ call = NoCall

SpecWithoutDateFormat == InitWithoutDateFormat /\ [][Next]_vars

\* collate of a LogCollator whose template asks for the meta handler
\* filename, and whose first schema captures a group of that name.
InitWithMetaHandler ==
    /\ bad_line_behavior = "discard"
    /\ allow_duplicates = TRUE
    /\ timestamp_output_format \in {NONE, "fine"}
    /\ line_output_format = TimestampNameFilenameMsg
    /\ log_parsing_info = <<SchemaCapturingFilename, SchemaB>>
    /\ log_paths \in 1 .. MaxFiles
    /\ Start
    /\ call = NoCall

SpecWithMetaHandler == InitWithMetaHandler /\ [][Next]_vars

-----------------------------------------------------------------------------
(* Single calls: a method of LogCollator or a function of util.py, applied  *)
(* to arguments the environment chooses.                                    *)

\* The lists of at most n schemas.
RECURSIVE SchemaLists(_)
SchemaLists(n) ==
    IF n = 0 THEN {<<>>}
    ELSE LET shorter == SchemaLists(n - 1)
         IN  shorter \cup {Append(l, x) : l \in shorter, x \in {SchemaA, SchemaB}}

\* match_first(string, prefix_infos) about to run: hits are the places of
\* prefix_infos whose regex matches the string, groupdict the named groups
\* of such a match, k the place the loop is at.
MatchFirstCalls ==
    {[fn |-> "match_first", hits |-> h, groupdict |-> g, arg |-> l,
      prefix_infos |-> l, k |-> 1, done |-> FALSE, result |-> 0] :
        h \in SUBSET (1 .. MaxSchemas),
        g \in {[timestamp |-> <<0>>, msg |-> <<1>>]},
        l \in SchemaLists(MaxSchemas)}

\* match_first, a turn of the loop in which re.match gives None.
MatchFirstMiss ==
    /\ call.fn = "match_first"
    /\ ~call.done
    /\ call.k <= Len(call.prefix_infos)
    /\ call.k \notin call.hits
    /\ call' = [call EXCEPT !.k = @ + 1]
    /\ UNCHANGED collate_vars

\* match_first, the turn of the loop in which re.match gives a match: the
\* groups are stored on the schema and the schema is returned.
MatchFirstHit ==
    /\ call.fn = "match_first"
    /\ ~call.done
    /\ call.k <= Len(call.prefix_infos)
    /\ call.k \in call.hits
    /\ call' = [call EXCEPT
                   !.prefix_infos = StoreMatch(@, call.k, call.groupdict),
                   !.result = call.k,
                   !.done = TRUE]
    /\ UNCHANGED collate_vars

\* match_first, the loop having ended: None is returned.
MatchFirstNone ==
    /\ call.fn = "match_first"
    /\ ~call.done
    /\ call.k > Len(call.prefix_infos)
    /\ call' = [call EXCEPT !.result = 0, !.done = TRUE]
    /\ UNCHANGED collate_vars

\* A line_output_format: lead tells whether literal text precedes the first
\* placeholder, keys are the names of the placeholders in order, tail tells
\* whether literal text follows the last placeholder.
Templates ==
    {[lead |-> l, keys |-> k, tail |-> t] :
        l \in BOOLEAN, t \in BOOLEAN,
        k \in {<<>>}
              \cup {<<a>> : a \in {"timestamp", "timestamp_utc", "msg"}}
              \cup {<<a, b>> : a \in {"timestamp", "timestamp_utc", "msg"},
                               b \in {"msg", "name", "owner", "level"}}}

\* The named groups of a line_regex (regex.groupindex.keys()).
GroupSets ==
    {{"timestamp"}, {"timestamp", "msg"}, {"timestamp", "msg", "level"},
     {"timestamp_utc", "msg"}}

\* The lists of at most n compiled regexes, each given by its named groups.
RECURSIVE RegexLists(_)
RegexLists(n) ==
    IF n = 0 THEN {<<>>}
    ELSE LET shorter == RegexLists(n - 1)
         IN  shorter \cup {Append(l, g) : l \in shorter, g \in GroupSets}

\* line_output_format.startswith("{timestamp")
StartsWithTimestamp(format_string) ==
    /\ ~format_string.lead
    /\ format_string.keys # <<>>
    /\ format_string.keys[1] \in {"timestamp", "timestamp_utc"}

\* extract_keywords_from_format_string: the field name of every tuple that
\* Formatter.parse yields; the tuple of a literal text that no placeholder
\* follows has the field name None.
extract_keywords_from_format_string(format_string) ==
    format_string.keys \o (IF format_string.tail THEN <<NONE>> ELSE <<>>)

\* __init__: the meta handlers whose name is a keyword of the template.
MetaHandlers(format_string) ==
    {"owner", "filename"}
        \cap Range(extract_keywords_from_format_string(format_string))

\* check_that_regex_is_superset_of_format_string
\* (regex_groups + meta is read as the names of both).
check_that_regex_is_superset_of_format_string(regex, meta, format_string) ==
    Range(extract_keywords_from_format_string(format_string))
        \subseteq (regex \cup meta)

\* check_that_regexes_are_all_supersets_of_format_string
check_that_regexes_are_all_supersets_of_format_string(regexes, meta, format_string) ==
    \A i \in DOMAIN regexes :
        check_that_regex_is_superset_of_format_string(regexes[i], meta,
                                                      format_string)

\* LogCollator(...) about to be constructed: the template and the line
\* regexes of the schemas.
ConstructorCalls ==
    {[fn |-> "__init__", line_output_format |-> t, regexes |-> l,
      done |-> FALSE, raised |-> "none"] :
        t \in Templates, l \in RegexLists(MaxSchemas - 1)}

\* LogCollator.__init__: the checks of the template.  (dateutil is imported
\* by the module, so the check for it never raises.)
Construct ==
    /\ call.fn = "__init__"
    /\ ~call.done
    /\ call' =
          [call EXCEPT
             !.done = TRUE,
             !.raised =
                IF ~StartsWithTimestamp(call.line_output_format)
                THEN "ValueError"
                ELSE IF ~check_that_regexes_are_all_supersets_of_format_string(
                            call.regexes,
                            MetaHandlers(call.line_output_format)
                                \cup {"name"},
                            call.line_output_format)
                THEN "ValueError"
                ELSE "none"]
    /\ UNCHANGED collate_vars

\* UTC offsets of the zones, in ticks.
Offsets == {-1, 0, 1}

\* Datetimes with a tzinfo, as amend_prefix_parse_timestamp has them after
\* the zones are settled.
AwareDatetimes ==
    {[date |-> d, tod |-> t, aware |-> TRUE, off |-> o] :
        d \in 0 .. 1, t \in 0 .. DayLen - 1, o \in Offsets}

\* The wraparound correction about to run on a parsed timestamp.
FixWraparoundCalls ==
    {[fn |-> "fix_wraparound", parsed_timestamp |-> dt,
      parsing_info |-> [SchemaA EXCEPT !.fix_wraparound = f],
      previous_line_date |-> prev, done |-> FALSE, result |-> dt] :
        dt \in AwareDatetimes, f \in BOOLEAN,
        prev \in {None} \cup {Some(p) : p \in AwareDatetimes}}

\* amend_prefix_parse_timestamp, lines 260-270.
ApplyFixWraparound ==
    /\ call.fn = "fix_wraparound"
    /\ ~call.done
    /\ call' = [call EXCEPT
                   !.done = TRUE,
                   !.result = FixWraparound(call.parsed_timestamp,
                                            call.parsing_info,
                                            call.previous_line_date)]
    /\ UNCHANGED collate_vars

\* The date of a file name, as strptime gives it.
FilenameDates == {Naive(d, 0) : d \in 0 .. 1}

\* parse_timestamp about to be called by amend_prefix_parse_timestamp on the
\* captured timestamp of a line.
ParseTimestampCalls ==
    {[fn |-> "parse_timestamp", timestamp |-> t, timestamp_format |-> f,
      previous_line_date |-> prev, filename_date |-> fdate,
      done |-> FALSE, result |-> [exc |-> "none", dt |-> Naive(Year1900, 0)]] :
        t \in TimeTexts \cup DateTexts,
        f \in {"time_only", "date_time", NONE},
        prev \in {None} \cup {Some(p) : p \in AwareDatetimes},
        fdate \in {None} \cup {Some(d) : d \in FilenameDates}}

\* amend_prefix_parse_timestamp, lines 218-225: the call of parse_timestamp.
ApplyParseTimestamp ==
    /\ call.fn = "parse_timestamp"
    /\ ~call.done
    /\ call' = [call EXCEPT
                   !.done = TRUE,
                   !.result = parse_timestamp(
                                  call.timestamp, call.timestamp_format,
                                  BaseDatetime(call.previous_line_date,
                                               call.filename_date))]
    /\ UNCHANGED collate_vars

\* What parse_timestamp returns: a datetime without tzinfo, or one with
\* the tzinfo its text named.
ParsedDatetimes ==
    {[date |-> d, tod |-> t, aware |-> a, off |-> o] :
        d \in 1 .. 2, t \in 0 .. DayLen - 1, a \in BOOLEAN, o \in Offsets}
    \ {dt \in [date : 1 .. 2, tod : 0 .. DayLen - 1, aware : {FALSE},
               off : Offsets] : dt.off # 0}

\* A zone a schema configures, or none.
Zones == {None} \cup {Some(o) : o \in Offsets}

\* The zones about to be settled for a parsed timestamp.
ResolveTimezoneCalls ==
    {[fn |-> "resolve_timezone", parsed_timestamp |-> dt,
      parsing_info |-> [SchemaA EXCEPT !.timestamp_input_timezone = i,
                                       !.timestamp_output_timezone = o],
      done |-> FALSE, result |-> [exc |-> "none", dt |-> dt]] :
        dt \in ParsedDatetimes, i \in Zones, o \in Zones}

\* amend_prefix_parse_timestamp, lines 227-258.
ApplyResolveTimezone ==
    /\ call.fn = "resolve_timezone"
    /\ ~call.done
    /\ call' = [call EXCEPT
                   !.done = TRUE,
                   !.result = ResolveTimezone(call.parsed_timestamp,
                                              call.parsing_info)]
    /\ UNCHANGED collate_vars

\* A line that the first schema alone matches, with the time of day t.
TimeOnlyLine(t) ==
    [blank |-> FALSE, hits |-> {1}, timestamp |-> <<t>>, msg |-> <<1>>,
     filename |-> CapturedName]

\* The loop of process_log_file about to run over two lines of a file whose
\* name carries a date: the lines carry a time of day each, and their schema
\* has fix_wraparound, an input zone and an output zone.
TwoLineCalls ==
    {[fn |-> "two_lines", lines |-> <<TimeOnlyLine(t1), TimeOnlyLine(t2)>>,
      parsing_info |-> [SchemaA EXCEPT !.timestamp_input_timezone = Some(i),
                                       !.timestamp_output_timezone = Some(o)],
      filename_date |-> Some(fdate), previous_line_date |-> None,
      k |-> 0, instants |-> <<>>, failed |-> FALSE] :
        t1 \in 0 .. DayLen - 1, t2 \in 0 .. DayLen - 1,
        i \in Offsets, o \in Offsets, fdate \in FilenameDates}

\* process_log_file, a turn of the loop with timestamp_output_format set:
\* the line is resolved against filename_date and previous_line_date, and
\* previous_line_date becomes the timestamp that is returned.
ResolveNextLine ==
    /\ call.fn = "two_lines"
    /\ call.k < Len(call.lines)
    /\ ~call.failed
    /\ \E r \in {amend_prefix_parse_timestamp(
                     call.lines[call.k + 1], <<call.parsing_info>>,
                     MetaKeywords(1), call.filename_date,
                     call.previous_line_date)} :
          call' = [call EXCEPT
                     !.k = @ + 1,
                     !.previous_line_date = PreviousLineDateAfter(r, @),
                     !.instants = IF r.exc = "none"
                                  THEN Append(@, Instant(r.timestamp))
                                  ELSE @,
                     !.failed = r.exc # "none"]
    /\ UNCHANGED collate_vars

Calls ==
    MatchFirstCalls \cup ConstructorCalls \cup FixWraparoundCalls
        \cup ParseTimestampCalls \cup ResolveTimezoneCalls
        \cup TwoLineCalls

InitCalls ==
    /\ bad_line_behavior = "discard"
    /\ allow_duplicates = TRUE
    /\ timestamp_output_format = "fine"
    /\ line_output_format = TimestampNameMsg
    /\ log_parsing_info \in SchemaSets
    /\ log_paths = 1
    /\ Start
    /\ call \in Calls

NextCalls ==
    \/ MatchFirstMiss
    \/ MatchFirstHit
    \/ MatchFirstNone
    \/ Construct
    \/ ApplyFixWraparound
    \/ ApplyParseTimestamp
    \/ ApplyResolveTimezone
    \/ ResolveNextLine

SpecCalls == InitCalls /\ [][NextCalls]_vars

-----------------------------------------------------------------------------
(* Properties *)

returned == pc = "done"

parses == timestamp_output_format # NONE

\* The place at which the fold first appended a record.
FirstIndex(lines, x) == Min({i \in DOMAIN lines : lines[i] = x})

IsPermutation(s, t) ==
    /\ Len(s) = Len(t)
    /\ \A x \in Range(s) \cup Range(t) :
          Cardinality({i \in DOMAIN s : s[i] = x})
            = Cardinality({i \in DOMAIN t : t[i] = x})

\* C1: with timestamp_output_format set, the lines collate returns are those
\* of the sorted records, and the instant of each record is not later than
\* the instant of the next; the records are the ones the folds appended.
C1_ChronologicalOrder ==
    (returned /\ parses) =>
        /\ output = [i \in DOMAIN sorted_lines |-> sorted_lines[i][2]]
        /\ Range(sorted_lines) = Range(all_processed_lines)
        /\ allow_duplicates => IsPermutation(sorted_lines, all_processed_lines)
        /\ \A i \in 1 .. Len(sorted_lines) - 1 :
              sorted_lines[i][1] <= sorted_lines[i + 1][1]

\* C1 witness: collate returned records that the folds had appended out of
\* chronological order.
C1_Witness ==
    /\ returned /\ parses
    /\ \E i \in 1 .. Len(all_processed_lines) - 1 :
          all_processed_lines[i][1] > all_processed_lines[i + 1][1]

\* C2: the chronological sort is stable: records with equal instants are
\* returned in the order in which the folds appended them, with and without
\* allow_duplicates.
C2_StableSort ==
    (returned /\ parses) =>
        \A i, j \in DOMAIN sorted_lines :
            (i < j /\ sorted_lines[i][1] = sorted_lines[j][1]) =>
                FirstIndex(all_processed_lines, sorted_lines[i])
                    <= FirstIndex(all_processed_lines, sorted_lines[j])

\* C3: with allow_duplicates=False no text occurs twice in what collate
\* returns.
C3_NoDuplicateText ==
    (returned /\ ~allow_duplicates) =>
        \A i, j \in DOMAIN output : i # j => output[i] # output[j]

\* C4: what collate returns without duplicates is no longer than what it
\* returns with them, on the same records, and has the same set of texts.
C4_DedupKeepsTexts ==
    returned =>
        \A s \in SortedLines(all_processed_lines, ~allow_duplicates) :
            LET other == Projected(s)
                without == IF allow_duplicates THEN other ELSE output
                with == IF allow_duplicates THEN output ELSE other
            IN  /\ Len(without) <= Len(with)
                /\ Range(without) = Range(with)

\* C4 witness: collate returned fewer lines than the folds appended.
C4_Witness ==
    /\ returned /\ ~allow_duplicates
    /\ Len(output) < Len(all_processed_lines)

\* C5: with bad_line_behavior="keep" the raw text of every line that no
\* schema matches is among the lines collate returns.
C5_KeptLinesReturned ==
    (returned /\ bad_line_behavior = "keep") => unmatched \subseteq Range(output)

\* C6: with bad_line_behavior other than "error" no line makes collate raise
\* (it raises only at the date in the name of a file), and with "discard" and
\* "warn" a line that no schema matches is not among the lines returned.
C6_NoRaiseUnlessError ==
    bad_line_behavior # "error" =>
        /\ error.at # "line"
        /\ pc = "raised" => error.at = "filename_date"
        /\ (returned /\ bad_line_behavior \in {"discard", "warn"}) =>
              unmatched \cap Range(output) = {}

\* C6 witness: a line that no schema matched was dropped and the next line of
\* the file was processed.
C6_Witness ==
    /\ bad_line_behavior \in {"discard", "warn"}
    /\ unmatched # {}
    /\ pc = "line" /\ lineno = 2 /\ last_exc = "none"
    /\ Len(processed_lines) = 1

\* C7: with bad_line_behavior="error" the first line that no schema matches
\* makes collate raise ValueError: it is the last line visited and collate
\* returns nothing.
C7_ErrorAborts ==
    (bad_line_behavior = "error" /\ unmatched # {}) =>
        /\ pc = "raised"
        /\ error = [exc |-> "ValueError", at |-> "line"]
        /\ last_exc = "ValueError"
        /\ Cardinality(unmatched) = 1
        /\ output = <<>> /\ sorted_lines = <<>>

\* C7 witness: collate raised at a line that no schema matched, after a line
\* that was processed and before the last path.
C7_Witness ==
    /\ bad_line_behavior = "error" /\ unmatched # {}
    /\ pc = "raised" /\ lineno = 2 /\ Len(processed_lines) = 1
    /\ cur < log_paths

\* C8: with bad_line_behavior="error" every line whose processing fails,
\* whichever parser failed, makes collate raise.
C8_TimestampFailureAborts ==
    (bad_line_behavior = "error" /\ last_exc # "none") => pc = "raised"

\* C9: with timestamp_output_format unset collate returns the texts the folds
\* appended in lexicographic order, and no timestamp is parsed.
C9_LexicographicOrder ==
    ~parses =>
        /\ previous_line_date = None
        /\ last_exc # "ParserError"
        /\ last_exc = "ValueError" => unmatched # {}
        /\ returned =>
              /\ sorted_lines = output
              /\ Range(output) = Range(all_processed_lines)
              /\ allow_duplicates => IsPermutation(output, all_processed_lines)
              /\ \A i \in 1 .. Len(output) - 1 :
                    LexLeq(output[i], output[i + 1])

\* C9 witness: collate returned texts that the folds had appended out of
\* lexicographic order.
C9_Witness ==
    /\ returned /\ ~parses
    /\ \E i \in 1 .. Len(all_processed_lines) - 1 :
          LexLess(all_processed_lines[i + 1], all_processed_lines[i])

\* C10: a path that cannot be read never makes collate raise.
C10_UnreadableNeverAborts ==
    pc = "raised" => cur \notin unreadable

\* C11: match_first tries the schemas in the order of the list: it returns
\* the first schema whose regex matches, with the named groups of that match
\* on it, and it returns None exactly when no regex of the list matches.
C11_FirstMatchWins ==
    (call.fn = "match_first" /\ call.done) =>
        LET matching == call.hits \cap DOMAIN call.arg
        IN  /\ call.result = 0 <=> matching = {}
            /\ matching # {} =>
                  /\ call.result \in matching
                  /\ \A j \in matching : call.result <= j
                  /\ call.prefix_infos[call.result].match
                        = Some(call.groupdict)
                  /\ \A j \in DOMAIN call.arg \ {call.result} :
                        call.prefix_infos[j] = call.arg[j]
            /\ call.result = match_first(call.hits, call.arg)
            /\ call.prefix_infos
                  = StoreMatch(call.arg, call.result, call.groupdict)

\* A later schema matches too, and the earlier one is returned.
C11_Witness ==
    /\ call.fn = "match_first"
    /\ call.done
    /\ call.result # 0
    /\ \E j \in call.hits \cap DOMAIN call.arg : j > call.result

\* C12: constructing a LogCollator fails exactly when the first placeholder
\* of the template is not timestamp, or some placeholder of the template is
\* outside the union of the capture groups of all the schemas, the keys of
\* the meta handlers and name; a template within that union is accepted.
C12_TemplateWithinUnionAccepted ==
    (call.fn = "__init__" /\ call.done) =>
        LET keys == call.line_output_format.keys
            allowed == UNION Range(call.regexes)
                           \cup {"owner", "filename", "name"}
        IN  call.raised # "none" <=>
                \/ keys = <<>>
                \/ keys[1] # "timestamp"
                \/ \E i \in DOMAIN keys : keys[i] \notin allowed

\* C13: a schema with filename_date_regex and without filename_date_format
\* is reported as a configuration error before any line is processed: the
\* error is never raised part-way through a run.
C13_MissingFormatBeforeAnyLine ==
    (pc = "raised" /\ error.at = "filename_date_format") => visited = 0

\* C14: when a filename_date_regex is configured and does not match the path
\* of a file, the file fails with a path-rejected error: its lines are never
\* processed with an absent file name date.
C14_UnmatchedPathRejected ==
    (/\ pc = "line"
     /\ \E i \in DOMAIN log_parsing_info :
           log_parsing_info[i].filename_date_regex # NONE)
        => filename_date # None

\* C15: the wraparound correction changes a resolved instant only when the
\* schema has fix_wraparound set, a previous instant exists and the instant
\* is strictly earlier than it; the instant is then advanced by exactly one
\* day, in every other case it is left as it is, and it is never decreased.
C15_WraparoundAdvancesOneDay ==
    (call.fn = "fix_wraparound" /\ call.done) =>
        LET dt == call.parsed_timestamp
            prev == call.previous_line_date
            earlier == IF prev = None THEN FALSE
                       ELSE dt.date * DayLen + dt.tod - dt.off
                              < prev[1].date * DayLen + prev[1].tod
                                  - prev[1].off
            applies == call.parsing_info.fix_wraparound /\ earlier
        IN  /\ applies =>
                  /\ Instant(call.result) = Instant(dt) + DayLen
                  /\ call.result.tod = dt.tod
                  /\ call.result.off = dt.off
            /\ ~applies => call.result = dt
            /\ Instant(call.result) >= Instant(dt)

\* The correction has advanced a timestamp.
C15_Witness ==
    /\ call.fn = "fix_wraparound"
    /\ call.done
    /\ call.result # call.parsed_timestamp

\* C16: when parsing gives the year 1900, the date is taken from the previous
\* instant of the file if there is one, otherwise from the date of the file
\* name, and the parsed time of day is kept; with neither, the line fails with
\* a ValueError.  No timestamp is returned with the year 1900.
C16_SentinelYearSubstituted ==
    (call.fn = "parse_timestamp" /\ call.done) =>
        LET parsed == Strptime(call.timestamp, call.timestamp_format)
            sentinel == /\ call.timestamp_format # NONE
                        /\ parsed.exc = "none"
                        /\ parsed.dt.date = Year1900
            prev == call.previous_line_date
            fdate == call.filename_date
        IN  /\ (sentinel /\ prev # None) =>
                  /\ call.result.exc = "none"
                  /\ call.result.dt.date = prev[1].date
                  /\ call.result.dt.tod = call.timestamp[1]
            /\ (sentinel /\ prev = None /\ fdate # None) =>
                  /\ call.result.exc = "none"
                  /\ call.result.dt.date = fdate[1].date
                  /\ call.result.dt.tod = call.timestamp[1]
            /\ (sentinel /\ prev = None /\ fdate = None) =>
                  call.result.exc = "ValueError"
            /\ call.result.exc = "none" => call.result.dt.date # Year1900

\* A time without date is resolved while the previous instant and the file
\* name carry different dates.
C16_Witness ==
    /\ call.fn = "parse_timestamp"
    /\ call.done
    /\ call.timestamp_format = "time_only"
    /\ call.result.exc = "none"
    /\ call.previous_line_date # None
    /\ call.filename_date # None
    /\ call.previous_line_date[1].date # call.filename_date[1].date

C18_PreviousNeverBackward ==
    [][(previous_line_date # None /\ previous_line_date' # None) =>
          Instant(previous_line_date'[1]) >= Instant(previous_line_date[1])]_vars

\* C19: the schemas are read-only after construction: matching a line or a
\* path leaves every schema as it was.
C19_SchemasReadOnly ==
    [][log_parsing_info' = log_parsing_info]_vars

\* C20: a line that fails (no schema matches it, or its timestamp cannot be
\* resolved) under a policy other than "error" leaves the state of the fold
\* as it was: previous_line_date and filename_date keep their values, so the
\* next line is resolved against the last line that succeeded, and under
\* "discard" and "warn" processed_lines gains no record.
C20_FailedLineLeavesFoldState ==
    [][(/\ pc = "line"
        /\ lineno' = lineno + 1
        /\ last_exc' # "none"
        /\ bad_line_behavior # "error")
          => /\ previous_line_date' = previous_line_date
             /\ filename_date' = filename_date
             /\ bad_line_behavior \in {"discard", "warn"} =>
                   processed_lines' = processed_lines]_vars

\* A line has failed after a line of the same file was resolved.
C20_Witness ==
    /\ pc = "line"
    /\ bad_line_behavior \in {"discard", "warn"}
    /\ lineno >= 2
    /\ last_exc # "none"
    /\ previous_line_date # None
    /\ Len(processed_lines) = 1

\* The text of a record of processed_lines.
TextOf(record) == IF parses THEN record[2] ELSE record

\* C21: the text of a line is made of the fields captured from that line,
\* the name of its schema and the meta handler values of the file: a line
\* whose schema captures no group named filename shows the file name the
\* meta handler gave for its file, never what an earlier line captured.
C21_NoFieldFromEarlierLine ==
    (pc = "line" /\ line_output_format = TimestampNameFilenameMsg) =>
        \A i \in DOMAIN processed_lines :
            LET text == TextOf(processed_lines[i])
                name == <<text[Len(text) - 2]>>
                filename == <<text[Len(text) - 1]>>
            IN  name = SchemaB.name => filename = MetaKeywords(cur)["filename"]

\* C22: with a schema whose timestamps carry no date and that has
\* fix_wraparound, for every input and output zone, two consecutive lines of
\* a file with the times of day t1 and t2 resolve to instants that are
\* t2 - t1 apart when t1 <= t2, and t2 - t1 plus one day apart when t2 < t1.
C22_ConsecutiveLinesKeepDistance ==
    (call.fn = "two_lines" /\ Len(call.instants) = 2) =>
        LET t1 == call.lines[1].timestamp[1]
            t2 == call.lines[2].timestamp[1]
            distance == call.instants[2] - call.instants[1]
        IN  IF t1 <= t2 THEN distance = t2 - t1
            ELSE distance = t2 - t1 + DayLen


=============================================================================
